---- MODULE Spec2Model ----
(***************************************************************************)
(* A model of src/lib.rs: DSlice, a raw heap buffer of u64 slots, and      *)
(* DArray, the double-ended array that keeps a window [begin, end) in it.  *)
(*                                                                         *)
(* Physical slot i of the buffer is array[i + 1] (TLA+ sequences start at  *)
(* 1, the buffer at 0).  usize arithmetic is modular; a build with         *)
(* overflow checks (debug) panics where a build without them (release)     *)
(* wraps.  Memory that was never written holds Uninit, which stands for    *)
(* the arbitrary value a read of it gives.  An access outside the buffer   *)
(* is undefined behaviour: the process may die there, or go on with        *)
(* garbage (Uninit again) for what it read.                                *)
(***************************************************************************)
EXTENDS Integers, Sequences, FiniteSets, TLC

\* The growth increment of the model (lib.rs has 1024; every handler is
\* written in terms of the constant, never of its value).
IncBound == 2

\* How many times the model lets the buffer grow.
MaxGrows == 1

\* The u64 values the model stores are 1..MaxValue.
MaxValue == 2

\* The width of usize in the model, in bits (64 on the targets of lib.rs).
UsizeBits == 6

INCREMENTAL_CAPACITY == IncBound

INITIAL_CAPACITY == INCREMENTAL_CAPACITY * 2

MaxCapacity == INITIAL_CAPACITY + MaxGrows * INCREMENTAL_CAPACITY

USIZE_MODULUS == 2 ^ UsizeBits

Values == 1 .. MaxValue

\* The indices a caller passes: every in-range one, and some out of range.
Indexes == 0 .. (MaxCapacity + 1)

\* The content of a slot that was allocated and never written.
Uninit == -1

\* What a call that returns nothing, or does not return, gives back.
NoValue == -2

VARIABLES
    array,            \* DArray.array: the DSlice, a sequence of slots
    begin,            \* DArray.begin
    end,              \* DArray.end
    overflow_checks,  \* the build: TRUE panics on usize overflow, FALSE wraps
    status,           \* "running", or "aborted" once the process has died
    last,             \* the last call: its name and outcome
    run,              \* the pushes made since new(), while only one end was pushed
    valid,            \* every call so far had its index in range
    maxlen            \* the greatest length so far, while every call was in
                      \* range; 0 once a call was out of range

vars ==
    <<array, begin, end, overflow_checks, status, last, run, valid, maxlen>>

----------------------------------------------------------------------------
(* usize arithmetic *)

WrappingSub(a, b) == (a - b + USIZE_MODULUS) % USIZE_MODULUS

WrappingAdd(a, b) == (a + b) % USIZE_MODULUS

SubOverflows(a, b) == a < b

AddOverflows(a, b) == a + b >= USIZE_MODULUS

----------------------------------------------------------------------------
(* Undefined behaviour: "none"; "oob", an access outside the buffer; "wild", *)
(* a block move longer than any address space, which cannot but fault.       *)

Worse(u1, u2) ==
    IF u1 = "wild" \/ u2 = "wild" THEN "wild"
    ELSE IF u1 = "oob" \/ u2 = "oob" THEN "oob"
    ELSE "none"

----------------------------------------------------------------------------
(* DSlice *)

DSlice_new == [k \in 1 .. INITIAL_CAPACITY |-> Uninit]

\* A growth that allocates afresh and copies nothing.
grow_lossy(a) == [k \in 1 .. Len(a) + INCREMENTAL_CAPACITY |-> Uninit]

\* A growth that doubles the buffer.
grow_double(a) == a \o [k \in 1 .. Len(a) |-> Uninit]

\* realloc to len + INCREMENTAL_CAPACITY slots: the old slots keep their
\* content and place, the new ones are uninitialized.
grow(a) == a \o [k \in 1 .. INCREMENTAL_CAPACITY |-> Uninit]

\* *a.get_unchecked(index): no bounds check.
get_unchecked(a, index) == IF index < Len(a) THEN a[index + 1] ELSE Uninit

\* *a.get_unchecked_mut(index) = value: no bounds check; a write outside the
\* buffer lands in memory that is not the buffer's.
set_unchecked(a, index, value) ==
    IF index < Len(a) THEN [a EXCEPT ![index + 1] = value] ELSE a

AccessUB(a, index) == IF index < Len(a) THEN "none" ELSE "oob"

\* A copy that goes forward slot by slot (memcpy in ascending order): a
\* destination above its overlapping source gets slots already overwritten.
copy_forward(a, src, dst, count) ==
    [j \in 1 .. Len(a) |->
        IF dst <= j - 1 /\ j - 1 < dst + count
        THEN IF dst > src
             THEN get_unchecked(a, src + ((j - 1 - dst) % (dst - src)))
             ELSE get_unchecked(a, src + (j - 1 - dst))
        ELSE a[j]]

\* std::intrinsics::copy(src, dst, count): memmove, every destination slot
\* gets what its source slot held before the call.
copy(a, src, dst, count) ==
    [j \in 1 .. Len(a) |->
        IF dst <= j - 1 /\ j - 1 < dst + count
        THEN get_unchecked(a, src + (j - 1 - dst))
        ELSE a[j]]

CopyUB(a, src, dst, count) ==
    IF count = 0 THEN "none"
    ELSE IF count >= USIZE_MODULUS \div 2 THEN "wild"
    ELSE IF src + count > Len(a) \/ dst + count > Len(a) THEN "oob"
    ELSE "none"

\* A shift right that copies forward, slot by slot, over its own source.
shift_right_forward(a, offset, count, shift_amount) ==
    [j \in 1 .. Len(a) |->
        IF offset + shift_amount <= j - 1 /\ j - 1 < offset + shift_amount + count
        THEN get_unchecked(a, offset + ((j - 1 - offset - shift_amount) % shift_amount))
        ELSE a[j]]

\* A shift left that takes its source at offset, not at offset + 1.
shift_left_in_place(a, offset, count) == copy(a, offset, offset, count)

shift_right(a, offset, count, shift_amount) ==
    copy(a, offset, offset + shift_amount, count)

shift_left(a, offset, count) == copy(a, offset + 1, offset, count)

----------------------------------------------------------------------------
(* DArray: every handler maps the fields before the call to the fields    *)
(* after it and the call's outcome.  result is "ok" (the call returned),  *)
(* "panic_bounds" (the handler's own index check), "panic_overflow" (a    *)
(* usize overflow in a build that checks them) or "panic_alloc" (realloc  *)
(* returned null).  mem tells whether the allocator can serve a growth.   *)

Fields(b, e, a) == [begin |-> b, end |-> e, array |-> a]

Outcome(b, e, a, result, ret, grew, ub) ==
    [begin |-> b, end |-> e, array |-> a,
     result |-> result, ret |-> ret, grew |-> grew, ub |-> ub]

Panic(s, result) ==
    Outcome(s.begin, s.end, s.array, result, NoValue, FALSE, "none")

\* A constructor that puts the empty window at the low end of the buffer.
new_at_zero == Fields(0, 0, DSlice_new)

new == Fields(INITIAL_CAPACITY \div 2, INITIAL_CAPACITY \div 2, DSlice_new)

\* begin + index: begin never exceeds INCREMENTAL_CAPACITY, so with the
\* indices of Indexes the sum stays below the modulus in either build.
map_index(s, index) == WrappingAdd(s.begin, index)

len(s, oc) ==
    IF oc /\ SubOverflows(s.end, s.begin) THEN Panic(s, "panic_overflow")
    ELSE Outcome(s.begin, s.end, s.array, "ok",
                 WrappingSub(s.end, s.begin), FALSE, "none")

get(s, index, oc) ==
    IF oc /\ SubOverflows(s.end, s.begin) THEN Panic(s, "panic_overflow")
    ELSE LET length == WrappingSub(s.end, s.begin) IN
         IF index >= length THEN Panic(s, "panic_bounds")
         ELSE LET i == map_index(s, index) IN
              Outcome(s.begin, s.end, s.array, "ok",
                      get_unchecked(s.array, i), FALSE, AccessUB(s.array, i))

\* A push_end that moves end before it asks for the growth.
push_end_counts_first(s, value, oc, mem) ==
    LET index == s.end
        full == index = Len(s.array)
    IN  IF full /\ ~mem
        THEN Outcome(s.begin, WrappingAdd(s.end, 1), s.array, "panic_alloc",
                     NoValue, FALSE, "none")
        ELSE LET a1 == IF full THEN grow(s.array) ELSE s.array
                 a2 == set_unchecked(a1, index, value)
                 ub == AccessUB(a1, index)
             IN  IF oc /\ AddOverflows(s.end, 1)
                 THEN Outcome(s.begin, s.end, a2, "panic_overflow",
                              NoValue, full, ub)
                 ELSE Outcome(s.begin, WrappingAdd(s.end, 1), a2, "ok",
                              NoValue, full, ub)

push_end(s, value, oc, mem) ==
    LET index == s.end
        full == index = Len(s.array)
    IN  IF full /\ ~mem THEN Panic(s, "panic_alloc")
        ELSE LET a1 == IF full THEN grow(s.array) ELSE s.array
                 a2 == set_unchecked(a1, index, value)
                 ub == AccessUB(a1, index)
             IN  IF oc /\ AddOverflows(s.end, 1)
                 THEN Outcome(s.begin, s.end, a2, "panic_overflow",
                              NoValue, full, ub)
                 ELSE Outcome(s.begin, WrappingAdd(s.end, 1), a2, "ok",
                              NoValue, full, ub)

\* A push_start that grows and moves the cursors, and forgets the shift.
push_start_no_shift(s, value, oc, mem) ==
    LET low == s.begin = 0 IN
    IF low /\ ~mem THEN Panic(s, "panic_alloc")
    ELSE LET a1 == IF low THEN grow(s.array) ELSE s.array
             b1 == IF low THEN INCREMENTAL_CAPACITY ELSE s.begin
             e1 == IF low THEN WrappingAdd(s.end, INCREMENTAL_CAPACITY)
                   ELSE s.end
         IN  Outcome(b1 - 1, e1, set_unchecked(a1, b1 - 1, value), "ok",
                     NoValue, low, AccessUB(a1, b1 - 1))

\* A push_start that, with begin = 0, moves the window into the free slots
\* at the high end when INCREMENTAL_CAPACITY of them are left, and grows
\* only when they are not.
push_start_reuses_high_end(s, value, oc, mem) ==
    LET low == s.begin = 0
        full == low /\ s.end + INCREMENTAL_CAPACITY > Len(s.array)
    IN
    IF full /\ ~mem THEN Panic(s, "panic_alloc")
    ELSE LET a0 == IF full THEN grow(s.array) ELSE s.array
             a1 == IF low
                   THEN shift_right(a0, 0, s.end, INCREMENTAL_CAPACITY)
                   ELSE s.array
             u1 == IF low
                   THEN CopyUB(a0, 0, INCREMENTAL_CAPACITY, s.end)
                   ELSE "none"
             b1 == IF low THEN INCREMENTAL_CAPACITY ELSE s.begin
             e1 == IF low THEN WrappingAdd(s.end, INCREMENTAL_CAPACITY)
                   ELSE s.end
             b2 == b1 - 1
         IN  Outcome(b2, e1, set_unchecked(a1, b2, value), "ok", NoValue,
                     full, Worse(u1, AccessUB(a1, b2)))

push_start(s, value, oc, mem) ==
    LET low == s.begin = 0 IN
    IF low /\ ~mem THEN Panic(s, "panic_alloc")
    ELSE IF low /\ oc /\ AddOverflows(s.end, INCREMENTAL_CAPACITY)
    THEN Outcome(INCREMENTAL_CAPACITY, s.end,
                 shift_right(grow(s.array), 0, s.end, INCREMENTAL_CAPACITY),
                 "panic_overflow", NoValue, TRUE,
                 CopyUB(grow(s.array), 0, INCREMENTAL_CAPACITY, s.end))
    ELSE LET a1 == IF low
                   THEN shift_right(grow(s.array), 0, s.end,
                                    INCREMENTAL_CAPACITY)
                   ELSE s.array
             u1 == IF low
                   THEN CopyUB(grow(s.array), 0, INCREMENTAL_CAPACITY, s.end)
                   ELSE "none"
             b1 == IF low THEN INCREMENTAL_CAPACITY ELSE s.begin
             e1 == IF low THEN WrappingAdd(s.end, INCREMENTAL_CAPACITY)
                   ELSE s.end
             b2 == b1 - 1
         IN  Outcome(b2, e1, set_unchecked(a1, b2, value), "ok", NoValue,
                     low, Worse(u1, AccessUB(a1, b2)))

\* The count remove hands to shift_left: self.end - index, with index
\* already mapped to its physical slot.
remove_count(s, index) == WrappingSub(s.end, map_index(s, index))

\* A remove that shifts and leaves end where it was.
remove_keeps_end(s, index, oc) ==
    LET i == map_index(s, index) IN
    IF oc /\ SubOverflows(s.end, i) THEN Panic(s, "panic_overflow")
    ELSE Outcome(s.begin, s.end, shift_left(s.array, i, WrappingSub(s.end, i)),
                 "ok", NoValue, FALSE,
                 CopyUB(s.array, i + 1, i, WrappingSub(s.end, i)))

remove(s, index, oc) ==
    LET i == map_index(s, index) IN
    IF oc /\ SubOverflows(s.end, i) THEN Panic(s, "panic_overflow")
    ELSE LET count == remove_count(s, index)
             a1 == shift_left(s.array, i, count)
             ub == CopyUB(s.array, i + 1, i, count)
         IN  IF oc /\ SubOverflows(s.end, 1)
             THEN Outcome(s.begin, s.end, a1, "panic_overflow",
                          NoValue, FALSE, ub)
             ELSE Outcome(s.begin, WrappingSub(s.end, 1), a1, "ok",
                          NoValue, FALSE, ub)

insert(s, index, value, oc, mem) ==
    IF index = 0 THEN push_start(s, value, oc, mem)
    ELSE IF oc /\ SubOverflows(s.end, s.begin) THEN Panic(s, "panic_overflow")
    ELSE IF index > WrappingSub(s.end, s.begin) THEN Panic(s, "panic_bounds")
    ELSE LET full == s.end = Len(s.array) IN
         IF full /\ ~mem THEN Panic(s, "panic_alloc")
         ELSE LET a1 == IF full THEN grow(s.array) ELSE s.array
                  i == map_index(s, index)
              IN  IF oc /\ SubOverflows(s.end, i)
                  THEN Outcome(s.begin, s.end, a1, "panic_overflow",
                               NoValue, full, "none")
                  ELSE LET count == WrappingSub(s.end, i)
                           a2 == shift_right(a1, i, count, 1)
                           a3 == set_unchecked(a2, i, value)
                           ub == Worse(CopyUB(a1, i, i + 1, count),
                                       AccessUB(a2, i))
                       IN  IF oc /\ AddOverflows(s.end, 1)
                           THEN Outcome(s.begin, s.end, a3, "panic_overflow",
                                        NoValue, full, ub)
                           ELSE Outcome(s.begin, WrappingAdd(s.end, 1), a3,
                                        "ok", NoValue, full, ub)

----------------------------------------------------------------------------
(* The program: a caller that makes any call with any argument, and goes *)
(* on after a panic (a panic unwinds and can be caught).                 *)

Current == Fields(begin, end, array)

\* The length as the data model defines it, an integer: end - begin.
Length(s) == s.end - s.begin

\* The window lies in the buffer.
WindowOK(s) == 0 <= s.begin /\ s.begin <= s.end /\ s.end <= Len(s.array)

\* The logical sequence: the slots of the window, in order.
Logical(s) ==
    [k \in 1 .. (s.end - s.begin) |-> get_unchecked(s.array, s.begin + k - 1)]

InRange(op, index) ==
    CASE op = "get" -> WindowOK(Current) /\ index < Length(Current)
      [] op = "remove" -> WindowOK(Current) /\ index < Length(Current)
      [] op = "insert" -> WindowOK(Current) /\ index <= Length(Current)
      [] OTHER -> WindowOK(Current)

NextRun(op, value, r) ==
    IF op \in {"get", "len"} \/ r.result = "panic_alloc" THEN run
    ELSE IF op = "push_end" /\ r.result = "ok" /\ run.kind \in {"empty", "end"}
    THEN [kind |-> "end", vals |-> Append(run.vals, value)]
    ELSE IF op = "push_start" /\ r.result = "ok"
            /\ run.kind \in {"empty", "start"}
    THEN [kind |-> "start", vals |-> Append(run.vals, value)]
    ELSE [kind |-> "mixed", vals |-> <<>>]

\* One call: r is what the handler computed.  After undefined behaviour the
\* process may be dead: nothing of the structure is left to observe, and the
\* fields stay as the call found them.
Commit(op, index, value, r) ==
    /\ status = "running"
    /\ Len(r.array) <= MaxCapacity
    /\ \E st \in (CASE r.ub = "none" -> {"running"}
                    [] r.ub = "oob" -> {"running", "aborted"}
                    [] OTHER -> {"aborted"}) :
          /\ status' = st
          /\ begin' = IF st = "running" THEN r.begin ELSE begin
          /\ end' = IF st = "running" THEN r.end ELSE end
          /\ array' = IF st = "running" THEN r.array ELSE array
          /\ maxlen' = IF ~(valid /\ InRange(op, index)) THEN 0
                       ELSE IF st = "running" /\ Length(r) > maxlen
                       THEN Length(r) ELSE maxlen
    /\ last' = [op |-> op, result |-> r.result, grew |-> r.grew, ub |-> r.ub]
    /\ run' = NextRun(op, value, r)
    /\ valid' = (valid /\ InRange(op, index))
    /\ UNCHANGED overflow_checks

Init ==
    /\ array = new.array
    /\ begin = new.begin
    /\ end = new.end
    /\ overflow_checks \in BOOLEAN
    /\ status = "running"
    /\ last = [op |-> "new", result |-> "ok", grew |-> FALSE, ub |-> "none"]
    /\ run = [kind |-> "empty", vals |-> <<>>]
    /\ valid = TRUE
    /\ maxlen = Length(new)

LenCall == Commit("len", 0, 0, len(Current, overflow_checks))

Get == \E i \in Indexes : Commit("get", i, 0, get(Current, i, overflow_checks))

PushEnd ==
    \E v \in Values, mem \in BOOLEAN :
        Commit("push_end", 0, v, push_end(Current, v, overflow_checks, mem))

PushStart ==
    \E v \in Values, mem \in BOOLEAN :
        Commit("push_start", 0, v, push_start(Current, v, overflow_checks, mem))

Remove ==
    \E i \in Indexes : Commit("remove", i, 0, remove(Current, i, overflow_checks))

Insert ==
    \E i \in Indexes, v \in Values, mem \in BOOLEAN :
        Commit("insert", i, v, insert(Current, i, v, overflow_checks, mem))

Next == LenCall \/ Get \/ PushEnd \/ PushStart \/ Remove \/ Insert

Spec == Init /\ [][Next]_vars

----------------------------------------------------------------------------
(* What the claims speak of *)

\* The call came back to its caller: it did not panic, and it made no block
\* move that cannot but fault.
Returns(r) == r.result = "ok" /\ r.ub # "wild"

\* The call failed and said so.
Fails(r) == r.result \in {"panic_bounds", "panic_overflow"}

SameFields(r, s) == r.begin = s.begin /\ r.end = s.end /\ r.array = s.array

InsertAt(s, i, v) == SubSeq(s, 1, i) \o <<v>> \o SubSeq(s, i + 1, Len(s))

RemoveAt(s, i) == SubSeq(s, 1, i) \o SubSeq(s, i + 2, Len(s))

Reverse(s) == [k \in 1 .. Len(s) |-> s[Len(s) + 1 - k]]

\* What a caller reads: get(k) returns t[k + 1] for every k below Len(t),
\* len() returns Len(t), and get(Len(t)) is out of range.
Reads(s, t) ==
    /\ len(s, overflow_checks).result = "ok"
    /\ len(s, overflow_checks).ret = Len(t)
    /\ \A k \in 0 .. Len(t) - 1 :
          /\ get(s, k, overflow_checks).result = "ok"
          /\ get(s, k, overflow_checks).ret = t[k + 1]
    /\ get(s, Len(t), overflow_checks).result = "panic_bounds"

----------------------------------------------------------------------------
(* The claims *)

\* C1: in every state reachable from DArray::new() by any calls with any
\* index and value, 0 <= begin <= end <= capacity, so the length end - begin
\* is never negative.
C1_WindowInvariant ==
    /\ 0 <= begin
    /\ begin <= end
    /\ end <= Len(array)
    /\ Length(Current) >= 0

\* C2: from the empty array, n push_end calls with v1..vn make get(k) return
\* v(k+1) for every k < n, and n push_start calls make get(k) return v(n-k),
\* whether or not the buffer grew on the way.
C2_RoundTrip ==
    /\ run.kind = "end" => Reads(Current, run.vals)
    /\ run.kind = "start" => Reads(Current, Reverse(run.vals))

\* A run of push_start calls long enough to have grown the buffer, with two
\* different values in it.
C2_Witness ==
    /\ run.kind = "start"
    /\ Len(run.vals) > INCREMENTAL_CAPACITY + 1
    /\ Len(array) > INITIAL_CAPACITY
    /\ run.vals[1] # run.vals[Len(run.vals)]
    /\ last.op = "push_start"
    /\ last.result = "ok"

\* A run of push_end calls long enough to have grown the buffer.
C2_WitnessEnd ==
    /\ run.kind = "end"
    /\ Len(run.vals) > INCREMENTAL_CAPACITY + 1
    /\ Len(array) > INITIAL_CAPACITY
    /\ run.vals[1] # run.vals[Len(run.vals)]
    /\ last.op = "push_end"


\* C3: in a state with logical sequence s, insert(i, v) with 0 <= i <=
\* length() yields s[0..i) ++ [v] ++ s[i..): the length is one more, get(i)
\* is v, the elements below i stay and those from i on move up by one,
\* whether or not the call grows the buffer.
C3_InsertShifts ==
    status = "running" =>
        \A i \in Indexes, v \in Values, mem \in BOOLEAN :
            LET r == insert(Current, i, v, overflow_checks, mem) IN
            (0 <= i /\ i <= Length(Current) /\ Returns(r)) =>
                Reads(r, InsertAt(Logical(Current), i, v))

\* An insert in the middle of at least three elements has grown the buffer.
C3_Witness ==
    /\ status = "running"
    /\ last.op = "insert"
    /\ last.result = "ok"
    /\ last.grew
    /\ begin > 0
    /\ Length(Current) >= 4
    /\ \E k \in 1 .. Length(Current) - 1 :
          Logical(Current)[k] # Logical(Current)[k + 1]

\* C4: in a state with logical sequence s, remove(i) with 0 <= i < length()
\* yields s[0..i) ++ s[i+1..): the length is one less, the elements below i
\* stay and those above i move down by one; begin and the capacity are
\* unchanged.
C4_RemoveShifts ==
    status = "running" =>
        \A i \in Indexes :
            LET r == remove(Current, i, overflow_checks) IN
            (0 <= i /\ i < Length(Current) /\ Returns(r)) =>
                /\ Reads(r, RemoveAt(Logical(Current), i))
                /\ r.begin = begin
                /\ Len(r.array) = Len(array)

\* A remove has left at least two different elements behind.
C4_Witness ==
    /\ status = "running"
    /\ last.op = "remove"
    /\ last.result = "ok"
    /\ WindowOK(Current)
    /\ Length(Current) >= 3
    /\ \E k \in 1 .. Length(Current) - 1 :
          Logical(Current)[k] # Logical(Current)[k + 1]

\* C5: after any valid calls, insert(i, v) with 0 <= i <= length() followed
\* by remove(i) leaves the length and every get(k) as they were, also for
\* i = 0 and when the insert grows the buffer.
C5_InsertRemoveInverse ==
    (status = "running" /\ valid) =>
        \A i \in Indexes, v \in Values, mem \in BOOLEAN :
            LET r1 == insert(Current, i, v, overflow_checks, mem) IN
            (0 <= i /\ i <= Length(Current) /\ Returns(r1)) =>
                LET r2 == remove(r1, i, overflow_checks) IN
                /\ r2.result = "ok"
                /\ Reads(r2, Logical(Current))

\* After valid calls only, a remove has left two different elements in a
\* window that starts at slot 0: insert(0, v) now grows the buffer through
\* push_start, and remove(0) takes the element out again.
C5_Witness ==
    /\ status = "running"
    /\ valid
    /\ last.op = "remove"
    /\ last.result = "ok"
    /\ begin = 0
    /\ Length(Current) >= 2
    /\ Logical(Current)[1] # Logical(Current)[2]
    /\ Returns(insert(Current, 0, 1, overflow_checks, TRUE))
    /\ insert(Current, 0, 1, overflow_checks, TRUE).grew


\* C6: a growth never changes the value or the logical position of a stored
\* element: when push_end or insert grows the buffer every element keeps its
\* value and its index (but for the shift by one of insert above i), and when
\* push_start grows it every element keeps its value and moves from index k
\* to index k + 1.
C6_GrowthTransparent ==
    status = "running" =>
        \A i \in Indexes, v \in Values :
            LET s == Logical(Current)
                pe == push_end(Current, v, overflow_checks, TRUE)
                ps == push_start(Current, v, overflow_checks, TRUE)
                ins == insert(Current, i, v, overflow_checks, TRUE)
            IN  /\ (pe.grew /\ Returns(pe)) =>
                      \A k \in 0 .. Len(s) - 1 :
                          /\ get(pe, k, overflow_checks).result = "ok"
                          /\ get(pe, k, overflow_checks).ret = s[k + 1]
                /\ (ps.grew /\ Returns(ps)) =>
                      \A k \in 0 .. Len(s) - 1 :
                          /\ get(ps, k + 1, overflow_checks).result = "ok"
                          /\ get(ps, k + 1, overflow_checks).ret = s[k + 1]
                /\ (i >= 1 /\ ins.grew /\ Returns(ins)) =>
                      \A k \in 0 .. Len(s) - 1 :
                          LET k2 == IF k < i THEN k ELSE k + 1 IN
                          /\ get(ins, k2, overflow_checks).result = "ok"
                          /\ get(ins, k2, overflow_checks).ret = s[k + 1]

\* A push_start has grown the buffer and moved at least two different
\* elements up.
C6_Witness ==
    /\ status = "running"
    /\ last.op = "push_start"
    /\ last.result = "ok"
    /\ last.grew
    /\ begin = INCREMENTAL_CAPACITY - 1
    /\ Length(Current) >= 3
    /\ Logical(Current)[2] # Logical(Current)[3]

\* C7: in every reachable state get(i) reports an out-of-range failure
\* exactly when i >= length(), returning no slot value; when i < length() it
\* returns the value of physical slot begin + i; either way it changes
\* nothing.
C7_GetChecked ==
    status = "running" =>
        \A i \in Indexes :
            LET r == get(Current, i, overflow_checks) IN
            /\ SameFields(r, Current)
            /\ (i >= Length(Current)) <=> Fails(r)
            /\ Fails(r) => r.ret = NoValue
            /\ (i < Length(Current)) =>
                  /\ r.result = "ok"
                  /\ begin + i < Len(array)
                  /\ r.ret = array[begin + i + 1]

\* C8: in every reachable state insert(i, v) with i > length() reports an
\* out-of-range failure before any memory is touched (no growth, no shift,
\* no write, begin, end and capacity unchanged), while index 0 and index
\* length() are always accepted.
C8_InsertChecked ==
    status = "running" =>
        \A i \in Indexes, v \in Values, mem \in BOOLEAN :
            LET r == insert(Current, i, v, overflow_checks, mem) IN
            /\ (i > Length(Current) /\ i # 0) =>
                  /\ Fails(r)
                  /\ ~r.grew
                  /\ r.ub = "none"
                  /\ SameFields(r, Current)
            /\ (i = 0 \/ i = Length(Current)) => ~Fails(r)

\* C9: in every reachable state, the empty one too, remove(i) with
\* i >= length() is rejected with an out-of-range failure before any shift:
\* no slot moves and begin, end and capacity are unchanged.
C9_RemoveChecked ==
    status = "running" =>
        \A i \in Indexes :
            LET r == remove(Current, i, overflow_checks) IN
            (i >= Length(Current)) => (Fails(r) /\ SameFields(r, Current))

\* C10: the capacity is 2 * INC after construction, is a positive multiple
\* of INC in every reachable state, never decreases, and changes only by
\* + INC, once for each grow call, which keeps the value and the physical
\* index of every slot below the old capacity.
C10_Capacity ==
    /\ Len(array) = 2 * INCREMENTAL_CAPACITY
    /\ [](/\ Len(array) > 0
          /\ Len(array) % INCREMENTAL_CAPACITY = 0
          /\ Len(grow(array)) = Len(array) + INCREMENTAL_CAPACITY
          /\ SubSeq(grow(array), 1, Len(array)) = array
          /\ \A i \in Indexes, v \in Values :
                /\ Len(push_end(Current, v, overflow_checks, TRUE).array)
                     = Len(IF push_end(Current, v, overflow_checks, TRUE).grew
                           THEN grow(array) ELSE array)
                /\ Len(push_start(Current, v, overflow_checks, TRUE).array)
                     = Len(IF push_start(Current, v, overflow_checks, TRUE).grew
                           THEN grow(array) ELSE array)
                /\ Len(insert(Current, i, v, overflow_checks, TRUE).array)
                     = Len(IF insert(Current, i, v, overflow_checks, TRUE).grew
                           THEN grow(array) ELSE array)
                /\ Len(remove(Current, i, overflow_checks).array) = Len(array))
    /\ [][Len(array') \in {Len(array), Len(array) + INCREMENTAL_CAPACITY}]_vars

\* The buffer has grown, and the call before this state grew it.
C10_Witness ==
    /\ status = "running"
    /\ last.grew
    /\ last.result = "ok"
    /\ Len(array) = INITIAL_CAPACITY + INCREMENTAL_CAPACITY


\* C11: in every reachable state, every slot a call with an in-range index
\* reads or writes lies in [0, capacity), the source and destination ranges
\* of the shifts included: every shift_right has offset + count + amount <=
\* capacity and every shift_left has offset + 1 + count <= capacity.
C11_AccessesInBuffer ==
    status = "running" =>
        \A i \in Indexes, v \in Values :
            /\ push_end(Current, v, overflow_checks, TRUE).ub = "none"
            /\ push_start(Current, v, overflow_checks, TRUE).ub = "none"
            /\ (0 <= i /\ i < Length(Current)) =>
                  get(Current, i, overflow_checks).ub = "none"
            /\ (0 <= i /\ i <= Length(Current)) =>
                  insert(Current, i, v, overflow_checks, TRUE).ub = "none"
            /\ (0 <= i /\ i < Length(Current)) =>
                  /\ remove(Current, i, overflow_checks).ub = "none"
                  /\ map_index(Current, i) + 1 + remove_count(Current, i)
                        <= Len(array)

\* C12: remove(i) with a valid i and p = begin + i moves exactly the
\* length() - i - 1 slots [p + 1, end) down by one: no slot at end or above
\* is a source of the move, and no slot outside [begin, end) is written.
C12_RemoveMovesWindowOnly ==
    status = "running" =>
        \A i \in Indexes :
            (0 <= i /\ i < Length(Current)) =>
                /\ remove_count(Current, i) = Length(Current) - i - 1
                /\ map_index(Current, i) + 1 + remove_count(Current, i) <= end
                /\ remove(Current, i, overflow_checks).array
                     = copy(array, begin + i + 1, begin + i,
                            Length(Current) - i - 1)


\* C13: push_start(v) with begin = 0 grows the capacity by INC, moves the
\* window [0, end) right by INC slots and ends with begin = INC - 1, end =
\* old end + INC and slot[begin] = v; with begin > 0 it leaves capacity and
\* end alone, moves no slot, and ends with begin = old begin - 1 and
\* slot[begin] = v.  Either way the length grows by one, and with begin = 0
\* the buffer grows even if slots are free at the high end.
C13_PushStart ==
    status = "running" =>
        \A v \in Values :
            LET r == push_start(Current, v, overflow_checks, TRUE) IN
            Returns(r) =>
                /\ (begin = 0) =>
                      /\ r.grew
                      /\ Len(r.array) = Len(array) + INCREMENTAL_CAPACITY
                      /\ \A k \in 0 .. end - 1 :
                            r.array[k + INCREMENTAL_CAPACITY + 1] = array[k + 1]
                      /\ r.begin = INCREMENTAL_CAPACITY - 1
                      /\ r.end = end + INCREMENTAL_CAPACITY
                /\ (begin > 0) =>
                      /\ ~r.grew
                      /\ Len(r.array) = Len(array)
                      /\ r.end = end
                      /\ \A k \in 0 .. Len(array) - 1 :
                            k # begin - 1 => r.array[k + 1] = array[k + 1]
                      /\ r.begin = begin - 1
                /\ r.array[r.begin + 1] = v
                /\ Length(r) = Length(Current) + 1

\* A push_start has grown the buffer and moved at least two elements while
\* slots were free at the high end.
C13_Witness ==
    /\ status = "running"
    /\ last.op = "push_start"
    /\ last.result = "ok"
    /\ last.grew
    /\ begin = INCREMENTAL_CAPACITY - 1
    /\ end < Len(array)
    /\ Length(Current) >= 3

C14_Witness ==
    /\ status = "running"
    /\ last.op = "push_end"
    /\ last.result = "ok"
    /\ last.grew
    /\ end = Len(array) - INCREMENTAL_CAPACITY + 1
    /\ Length(Current) >= 3
    /\ Logical(Current)[1] # Logical(Current)[2]


\* One push at the named end, the allocator willing.
Push(kind, s, v, oc) ==
    IF kind = "end" THEN push_end(s, v, oc, TRUE) ELSE push_start(s, v, oc, TRUE)

RECURSIVE PushRun(_, _, _, _)
\* n consecutive pushes at one end starting in s, nothing in between: for
\* each push, whether it grew the buffer; the run stops at a push that
\* does not return.
PushRun(kind, s, n, oc) ==
    IF n = 0 THEN <<>>
    ELSE LET r == Push(kind, s, 1, oc) IN
         IF ~Returns(r) THEN <<"failed">>
         ELSE <<IF r.grew THEN "grew" ELSE "kept">>
                 \o PushRun(kind, Fields(r.begin, r.end, r.array), n - 1, oc)

\* C15: in a run of consecutive push_end calls, a push_end that grows the
\* buffer is followed by exactly INC - 1 push_end calls that do not grow it,
\* and the next one grows it again; the same for a run of push_start calls.
C15_GrowthSpacing ==
    status = "running" =>
        \A kind \in {"end", "start"} :
            LET flags == PushRun(kind, Current, INCREMENTAL_CAPACITY + 1,
                                 overflow_checks) IN
            flags[1] = "grew" =>
                flags = [k \in 1 .. INCREMENTAL_CAPACITY + 1 |->
                            IF k \in {1, INCREMENTAL_CAPACITY + 1}
                            THEN "grew" ELSE "kept"]

\* A run of push_end calls from new() has grown the buffer once and then
\* pushed INC - 1 times without growth; the next push_end grows it again.
C15_Witness ==
    /\ status = "running"
    /\ run.kind = "end"
    /\ Len(run.vals) = 2 * INCREMENTAL_CAPACITY
    /\ last.op = "push_end"
    /\ ~last.grew
    /\ Len(array) = INITIAL_CAPACITY + INCREMENTAL_CAPACITY
    /\ PushRun("end", Current, 1, overflow_checks) = <<"grew">>


\* C16: new() yields begin = end = INC = INITIAL_CAPACITY / 2, length 0 and
\* capacity 2 * INC; from the fresh structure INC consecutive push_end
\* calls, or INC consecutive push_start calls, complete without growth, and
\* the (INC + 1)-th push at that end is the first to grow the buffer.
C16_FreshStructure ==
    /\ new.begin = INCREMENTAL_CAPACITY
    /\ new.end = INCREMENTAL_CAPACITY
    /\ INCREMENTAL_CAPACITY = INITIAL_CAPACITY \div 2
    /\ Length(new) = 0
    /\ Len(new.array) = 2 * INCREMENTAL_CAPACITY
    /\ last.op = "new" => Current = new
    /\ \A kind \in {"end", "start"} :
          PushRun(kind, new, INCREMENTAL_CAPACITY + 1, overflow_checks)
             = [k \in 1 .. INCREMENTAL_CAPACITY + 1 |->
                   IF k = INCREMENTAL_CAPACITY + 1 THEN "grew" ELSE "kept"]
    /\ (/\ status = "running"
        /\ run.kind \in {"end", "start"}
        /\ last.op \in {"push_end", "push_start"}
        /\ last.result = "ok"
        /\ Len(run.vals) <= INCREMENTAL_CAPACITY + 1)
          => /\ last.grew <=> (Len(run.vals) = INCREMENTAL_CAPACITY + 1)
             /\ Length(Current) = Len(run.vals)
             /\ Len(array) = IF last.grew
                             THEN INITIAL_CAPACITY + INCREMENTAL_CAPACITY
                             ELSE INITIAL_CAPACITY

\* The (INC + 1)-th push_start of a run from new() has grown the buffer.
C16_Witness ==
    /\ status = "running"
    /\ run.kind = "start"
    /\ Len(run.vals) = INCREMENTAL_CAPACITY + 1
    /\ last.op = "push_start"
    /\ last.grew
    /\ Len(array) = INITIAL_CAPACITY + INCREMENTAL_CAPACITY


\* C17: both shift primitives are overlap-safe block moves.  For offset +
\* count + amount <= capacity, shift_right(offset, count, amount) leaves
\* slot[offset + amount + k] = old slot[offset + k] for every k < count, also
\* when amount < count, and changes no slot outside [offset + amount,
\* offset + amount + count); for offset + 1 + count <= capacity,
\* shift_left(offset, count) leaves slot[offset + k] = old slot[offset + 1 + k]
\* for every k < count and changes no slot outside [offset, offset + count).
C17_ShiftsAreBlockMoves ==
    LET capacity == Len(array) IN
    /\ \A offset \in 0 .. capacity, count \in 0 .. capacity,
          amount \in 0 .. capacity :
          offset + count + amount <= capacity =>
              LET moved == shift_right(array, offset, count, amount) IN
              /\ Len(moved) = capacity
              /\ \A k \in 0 .. count - 1 :
                    moved[offset + amount + k + 1] = array[offset + k + 1]
              /\ \A j \in 0 .. capacity - 1 :
                    (j < offset + amount \/ j >= offset + amount + count)
                       => moved[j + 1] = array[j + 1]
    /\ \A offset \in 0 .. capacity, count \in 0 .. capacity :
          offset + 1 + count <= capacity =>
              LET moved == shift_left(array, offset, count) IN
              /\ Len(moved) = capacity
              /\ \A k \in 0 .. count - 1 :
                    moved[offset + k + 1] = array[offset + 1 + k + 1]
              /\ \A j \in 0 .. capacity - 1 :
                    (j < offset \/ j >= offset + count)
                       => moved[j + 1] = array[j + 1]

\* A growing push_start has moved a window longer than the shift amount
\* (source and destination overlap), and an in-range remove below would move
\* at least two different values left.
C17_Witness ==
    /\ status = "running"
    /\ last.op = "push_start"
    /\ last.result = "ok"
    /\ last.grew
    /\ Length(Current) >= INCREMENTAL_CAPACITY + 2
    /\ array[INCREMENTAL_CAPACITY + 1] # array[INCREMENTAL_CAPACITY + 2]
    /\ array[INCREMENTAL_CAPACITY + 1] # Uninit
    /\ array[INCREMENTAL_CAPACITY + 2] # Uninit


\* The call asked for a growth the allocator refused: it failed fatally,
\* did not return, and left every field as it found it.
FailsUnchanged(r, s) ==
    /\ r.result = "panic_alloc"
    /\ ~Returns(r)
    /\ r.ub = "none"
    /\ SameFields(r, s)

\* C18: if the allocator cannot satisfy a growth request made inside
\* push_end, push_start or insert, the operation fails fatally and never
\* returns normally, and begin, end, capacity and every slot still have the
\* values they had before the call.
C18_AllocFailureKeepsState ==
    status = "running" =>
        \A i \in Indexes, v \in Values :
            /\ push_end(Current, v, overflow_checks, TRUE).grew =>
                  FailsUnchanged(push_end(Current, v, overflow_checks, FALSE),
                                 Current)
            /\ push_start(Current, v, overflow_checks, TRUE).grew =>
                  FailsUnchanged(push_start(Current, v, overflow_checks, FALSE),
                                 Current)
            /\ insert(Current, i, v, overflow_checks, TRUE).grew =>
                  FailsUnchanged(insert(Current, i, v, overflow_checks, FALSE),
                                 Current)

\* An insert on a full buffer with stored elements has just been refused its
\* growth.
C18_Witness ==
    /\ status = "running"
    /\ last.op = "insert"
    /\ last.result = "panic_alloc"
    /\ ~last.grew
    /\ end = Len(array)
    /\ begin > 0
    /\ Length(Current) >= 2


\* The end an operation adds at has no free slot left.
Exhausted(op, index) ==
    IF op = "push_start" \/ (op = "insert" /\ index = 0)
    THEN begin = 0
    ELSE end = Len(array)

\* The call grew the buffer by INCREMENTAL_CAPACITY slots if the end it adds
\* at was exhausted and it got as far as the growth, and left the capacity
\* alone otherwise.
GrowsWhenExhausted(op, index, r) ==
    /\ r.grew => Exhausted(op, index)
    /\ (Returns(r) /\ Exhausted(op, index)) => r.grew
    /\ Len(r.array) = Len(array) + (IF r.grew THEN INCREMENTAL_CAPACITY ELSE 0)

\* C19 as stated: in every state reachable by valid calls, capacity <= M +
\* 2 * INC, where M is the greatest length the structure has had so far.
C19_CapacityBoundedByLength ==
    (valid /\ status = "running") =>
        Len(array) <= maxlen + 2 * INCREMENTAL_CAPACITY

\* C19, amended: the buffer grows only when the end an operation adds at is
\* exhausted, and then by exactly INC slots: push_end and insert(i > 0) grow
\* it if and only if end = capacity, push_start and insert(0) if and only
\* if begin = 0, whatever is free at the other end; get, length and remove
\* never change the capacity.  The capacity is a whole number of INC slots
\* above the initial one and is not bounded by the greatest length reached.
C19_GrowsWhenEndExhausted ==
    status = "running" =>
        /\ Len(array) >= INITIAL_CAPACITY
        /\ (Len(array) - INITIAL_CAPACITY) % INCREMENTAL_CAPACITY = 0
        /\ Len(len(Current, overflow_checks).array) = Len(array)
        /\ \A i \in Indexes, v \in Values :
              /\ GrowsWhenExhausted("push_end", 0,
                    push_end(Current, v, overflow_checks, TRUE))
              /\ GrowsWhenExhausted("push_start", 0,
                    push_start(Current, v, overflow_checks, TRUE))
              /\ GrowsWhenExhausted("insert", i,
                    insert(Current, i, v, overflow_checks, TRUE))
              /\ Len(get(Current, i, overflow_checks).array) = Len(array)
              /\ Len(remove(Current, i, overflow_checks).array) = Len(array)

\* In-range calls only have grown the buffer beyond the greatest length
\* reached plus 2 * INC: a push_start found begin = 0 with free slots left
\* at the high end.
C19_Witness ==
    /\ valid
    /\ status = "running"
    /\ last.op = "push_start"
    /\ last.grew
    /\ Len(array) > maxlen + 2 * INCREMENTAL_CAPACITY
    /\ end < Len(array)

====
